---- MODULE Spec2Model ----
(***************************************************************************)
(* A model of server.js: the Express routes over the three PostgreSQL      *)
(* tables (requirement_types, requirements, comments) and the Cloudinary   *)
(* upload helper.  Every `await` of a handler is a point where another     *)
(* request may run, so a handler is one action per awaited call that       *)
(* touches the store or the uploader; a handler with a single query is one *)
(* action.  Each SQL statement is atomic in the store.                     *)
(***************************************************************************)
EXTENDS Integers, Sequences, FiniteSets, TLC

(* ---------------------------- bounds ----------------------------------- *)
MaxReqs == 2        \* INSERTs into requirements that are executed
MaxComments == 1    \* INSERTs into comments that are executed
MaxTypes == 3       \* INSERTs into requirement_types that are executed
MaxFiles == 1       \* files of one request (req.files) in Spec
MaxBatch == 3       \* files of one call of the uploader in SpecUpload

Clients == {"c1", "c2"}

\* JavaScript undefined and SQL NULL: node-postgres sends undefined as NULL.
Null == "<null>"

(* ---------------------------- inputs ----------------------------------- *)
ImageA == [buffer |-> "a", mimetype |-> "image/png"]
ImageB == [buffer |-> "b", mimetype |-> "image/jpeg"]
VideoC == [buffer |-> "c", mimetype |-> "video/mp4"]
PdfD == [buffer |-> "d", mimetype |-> "application/pdf"]

SeqsUpTo(S, n) == UNION {[1..k -> S] : k \in 0..n}

\* req.files of POST /api/requirements and of POST .../comments
RequestFiles == SeqsUpTo({ImageA, VideoC}, MaxFiles)
CommentFiles == SeqsUpTo({ImageA}, MaxFiles)
BatchFiles == SeqsUpTo({ImageA, ImageB, VideoC, PdfD}, MaxBatch)

\* req.body of POST /api/requirements: a complete body, and the bodies that
\* lack one required field (absent, or present and empty).
ValidCreate ==
  [customer |-> "Acme", contact |-> "555", type |-> "Bug", details |-> "X",
   followUp |-> "call"]

CreateBodies ==
  {ValidCreate, [ValidCreate EXCEPT !.customer = Null],
   [ValidCreate EXCEPT !.type = ""], [ValidCreate EXCEPT !.details = Null]}

\* req.body of PUT /api/requirements/:id; contact is left out of the body.
ValidUpdate ==
  [customer |-> "Zed", contact |-> Null, type |-> "Feature", details |-> "Y"]

UpdateBodies ==
  {ValidUpdate, [ValidUpdate EXCEPT !.customer = ""],
   [ValidUpdate EXCEPT !.type = Null], [ValidUpdate EXCEPT !.details = ""]}

StatusInputs == {Null, "Resolved"}
TextInputs == {"", "hi"}
NameInputs == {Null, "", "Bug", "Feature"}
ReqIds == 1..(MaxReqs + 1)
TypeIds == 1..(MaxTypes + 1)

(* ---------------------------- state ------------------------------------ *)
VARIABLES
  requirement_types,  \* rows of table requirement_types
  requirements,       \* rows of table requirements
  comments,           \* rows of table comments
  types_seq,          \* last value of the SERIAL sequence of requirement_types
  requirements_seq,   \* last value of the SERIAL sequence of requirements
  comments_seq,       \* last value of the SERIAL sequence of comments
  pc,                 \* per request slot: where its handler is suspended
  loc,                \* per request slot: the handler's local variables
  last,               \* the HTTP response sent by the latest step, if any
  snaps               \* history: store contents seen while a listing runs

vars == <<requirement_types, requirements, comments, types_seq,
          requirements_seq, comments_seq, pc, loc, last, snaps>>

Store == [requirements |-> requirements, comments |-> comments]

NoLoc ==
  [op |-> "none", id |-> 0, body |-> Null, files |-> <<>>, i |-> 0,
   images |-> <<>>, videos |-> <<>>, results |-> <<>>, rows |-> <<>>,
   out |-> <<>>, free |-> FALSE]

NoResp ==
  [op |-> "none", code |-> 0, id |-> 0, req |-> Null, body |-> <<>>,
   uploads |-> 0, queries |-> 0, nfiles |-> 0, found |-> FALSE,
   raced |-> FALSE, snaps |-> {}]

\* A response: its status code and body, and about the request it answers:
\* the route (op), the :id and input it carried (req), the number of calls
\* it made to the uploader and to the store, the number of files it carried,
\* whether :id (or the type name) was in the store when its statement ran,
\* and whether a type name was still free when the request arrived (raced).  A response that
\* changed nothing carries only what tells its case apart.
Resp(op, code, id, req, body, uploads, queries, nfiles, found) ==
  [op |-> op, code |-> code, id |-> id, req |-> req, body |-> body,
   uploads |-> uploads, queries |-> queries, nfiles |-> nfiles,
   found |-> found, raced |-> FALSE, snaps |-> {}]

(* ---------------------------- helpers ---------------------------------- *)
\* JavaScript !x on a body field: undefined and the empty string are falsy.
Falsy(x) == x = Null \/ x = ""

\* String.prototype.startsWith
StartsWith(s, p) == Len(s) >= Len(p) /\ SubSeq(s, 1, Len(p)) = p

\* result.secure_url of a successful upload of the file
SecureUrl(file) == "https://res/" \o file.buffer

\* CURRENT_TIMESTAMP of an INSERT, as a logical time within its table: later
\* statements on a table see later times (inserted counts the INSERTs so far).
Now(inserted) == inserted + 1

Ids(rows) == {r.id : r \in rows}

RECURSIVE OrderDesc(_)
\* ORDER BY created_at DESC
OrderDesc(rows) ==
  IF rows = {} THEN <<>>
  ELSE LET r == CHOOSE x \in rows : \A y \in rows : y.created_at <= x.created_at
       IN <<r>> \o OrderDesc(rows \ {r})

RECURSIVE OrderAsc(_)
\* ORDER BY created_at ASC
OrderAsc(rows) ==
  IF rows = {} THEN <<>>
  ELSE LET r == CHOOSE x \in rows : \A y \in rows : x.created_at <= y.created_at
       IN <<r>> \o OrderAsc(rows \ {r})

\* Variant: the SELECT has no WHERE clause.
SelectComments_NoWhere(cms, id) == OrderAsc(cms)

\* SELECT * FROM comments WHERE requirement_id = $1 ORDER BY created_at ASC
SelectComments(cms, id) == OrderAsc({cm \in cms : cm.requirement_id = id})

\* History: every store content a running listing has lived through.
Observe ==
  snaps' = [c \in Clients |->
              IF pc'[c] = "listComments" THEN snaps[c] \cup {Store'} ELSE {}]

Init ==
  /\ requirement_types = {}
  /\ requirements = {}
  /\ comments = {}
  /\ types_seq = 0
  /\ requirements_seq = 0
  /\ comments_seq = 0
  /\ pc = [c \in Clients |-> "idle"]
  /\ loc = [c \in Clients |-> NoLoc]
  /\ last = NoResp
  /\ snaps = [c \in Clients |-> {}]

TypesUnchanged == UNCHANGED <<requirement_types, types_seq>>
ReqStoreUnchanged ==
  UNCHANGED <<requirements, comments, requirements_seq, comments_seq>>

(* ---------------------- uploadMediaToCloudinary ------------------------ *)
\* Variant: a failed upload ends the loop (break in the catch block).
UploadOne_StopsOnFailure(l, ok) ==
  LET file == l.files[l.i]
      resourceType == IF StartsWith(file.mimetype, "image") THEN "image" ELSE "video"
  IN [l EXCEPT
        !.i = IF ok THEN @ + 1 ELSE Len(l.files) + 1,
        !.results = Append(@, ok),
        !.images = IF ok /\ resourceType = "image"
                   THEN Append(@, SecureUrl(file)) ELSE @,
        !.videos = IF ok /\ resourceType # "image"
                   THEN Append(@, SecureUrl(file)) ELSE @]

\* One iteration of the for loop: the awaited upload of file i succeeded
\* (ok) or threw, and the catch block swallowed the error.
UploadOne(l, ok) ==
  LET file == l.files[l.i]
      resourceType == IF StartsWith(file.mimetype, "image") THEN "image" ELSE "video"
  IN [l EXCEPT
        !.i = @ + 1,
        !.results = Append(@, ok),
        !.images = IF ok /\ resourceType = "image"
                   THEN Append(@, SecureUrl(file)) ELSE @,
        !.videos = IF ok /\ resourceType # "image"
                   THEN Append(@, SecureUrl(file)) ELSE @]

UploadStep(c) ==
  /\ pc[c] = "upload"
  /\ loc[c].i <= Len(loc[c].files)
  /\ \E ok \in BOOLEAN : loc' = [loc EXCEPT ![c] = UploadOne(@, ok)]
  /\ last' = NoResp
  /\ UNCHANGED pc
  /\ TypesUnchanged
  /\ ReqStoreUnchanged
  /\ Observe

(* ----------------------- POST /api/requirements ------------------------ *)
\* Variant: the validation forgets details.
MissingRequired_SkipsDetails(b) == Falsy(b.customer) \/ Falsy(b.type)

\* if (!customer || !type || !details)
MissingRequired(b) == Falsy(b.customer) \/ Falsy(b.type) \/ Falsy(b.details)

InFlight(op) == Cardinality({c \in Clients : loc[c].op = op})

\* The handler up to its first await: validation, then the uploader is entered.
CreateRequirement(c, body, files) ==
  /\ pc[c] = "idle"
  /\ IF MissingRequired(body)
     THEN /\ last' = Resp("createRequirement", 400, 0, body, <<>>, 0, 0,
                          Len(files), FALSE)
          /\ UNCHANGED <<pc, loc>>
     ELSE /\ requirements_seq + InFlight("createRequirement") < MaxReqs
          /\ pc' = [pc EXCEPT ![c] = "upload"]
          /\ loc' = [loc EXCEPT ![c] =
                       [NoLoc EXCEPT !.op = "createRequirement", !.body = body,
                                     !.files = files, !.i = 1]]
          /\ last' = NoResp
  /\ TypesUnchanged
  /\ ReqStoreUnchanged
  /\ Observe

\* The row the INSERT builds: id from the sequence, status and created_at
\* from the column defaults.
NewRequirement(l, id, now) ==
  [id |-> id, customer |-> l.body.customer, contact |-> l.body.contact,
   type |-> l.body.type, details |-> l.body.details,
   follow_up |-> l.body.followUp, status |-> "Pending",
   images |-> l.images, videos |-> l.videos, created_at |-> now]

\* customer, type and details are NOT NULL
RequirementNotNull(r) == r.customer # Null /\ r.type # Null /\ r.details # Null

\* The uploader has returned: INSERT INTO requirements ... RETURNING *
InsertRequirement(c) ==
  /\ pc[c] = "upload"
  /\ loc[c].op = "createRequirement"
  /\ loc[c].i > Len(loc[c].files)
  /\ LET l == loc[c]
         row == NewRequirement(l, requirements_seq + 1, Now(requirements_seq))
     IN /\ requirements_seq' = requirements_seq + 1
        /\ IF RequirementNotNull(row)
           THEN /\ requirements' = requirements \cup {row}
                /\ last' = Resp("createRequirement", 201, row.id, l.body, <<row>>,
                                Len(l.results), 1, Len(l.files), FALSE)
           ELSE /\ UNCHANGED requirements
                /\ last' = Resp("createRequirement", 500, 0, l.body, <<>>,
                                Len(l.results), 1, Len(l.files), FALSE)
  /\ pc' = [pc EXCEPT ![c] = "idle"]
  /\ loc' = [loc EXCEPT ![c] = NoLoc]
  /\ UNCHANGED <<comments, comments_seq>>
  /\ TypesUnchanged
  /\ Observe

(* -------------------- PUT /api/requirements/:id/status ----------------- *)
\* Variant: the UPDATE also empties the image list.
SetStatus_ClearsImages(r, status) == [r EXCEPT !.status = status, !.images = <<>>]

\* UPDATE requirements SET status = $1 WHERE id = $2
SetStatus(r, status) == [r EXCEPT !.status = status]

UpdateStatus(c, id, status) ==
  /\ pc[c] = "idle"
  /\ LET hit == {r \in requirements : r.id = id}
         rows == {SetStatus(r, status) : r \in hit}
         found == id \in Ids(requirements)
     IN /\ requirements' = (requirements \ hit) \cup rows
        /\ last' = IF rows = {}
                   THEN Resp("updateStatus", 404, 0, Null, <<>>, 0, 1, 0, found)
                   ELSE Resp("updateStatus", 200, id, status, OrderAsc(rows),
                             0, 1, 0, found)
  /\ UNCHANGED <<comments, requirements_seq, comments_seq, pc, loc>>
  /\ TypesUnchanged
  /\ Observe

(* ----------------------- PUT /api/requirements/:id --------------------- *)
\* Variant: the UPDATE also puts the status back to its default.
SetDetails_ResetsStatus(r, b) ==
  [r EXCEPT !.customer = b.customer, !.contact = b.contact, !.type = b.type,
            !.details = b.details, !.status = "Pending"]

\* UPDATE requirements SET customer = $1, contact = $2, type = $3,
\* details = $4 WHERE id = $5
SetDetails(r, b) ==
  [r EXCEPT !.customer = b.customer, !.contact = b.contact, !.type = b.type,
            !.details = b.details]

UpdateDetails(c, id, body) ==
  /\ pc[c] = "idle"
  /\ IF MissingRequired(body)
     THEN /\ last' = Resp("updateDetails", 400, 0, body, <<>>, 0, 0, 0, FALSE)
          /\ UNCHANGED requirements
     ELSE LET hit == {r \in requirements : r.id = id}
              rows == {SetDetails(r, body) : r \in hit}
              found == id \in Ids(requirements)
          IN /\ requirements' = (requirements \ hit) \cup rows
             /\ last' = IF rows = {}
                        THEN Resp("updateDetails", 404, 0, body, <<>>, 0, 1, 0,
                                  found)
                        ELSE Resp("updateDetails", 200, id, body, OrderAsc(rows),
                                  0, 1, 0, found)
  /\ UNCHANGED <<comments, requirements_seq, comments_seq, pc, loc>>
  /\ TypesUnchanged
  /\ Observe

(* --------------------- DELETE /api/requirements/:id -------------------- *)
\* The keyword the statement puts before "*": DELETE ... WHERE id = $1 RETETING *;
DeleteReturningKeyword == "RETETING"

\* PostgreSQL accepts the clause only when it is spelled RETURNING; any other
\* word there is a syntax error and the statement is not executed.
SqlParses(keyword) == keyword = "RETURNING"

\* comments.requirement_id REFERENCES requirements(id) ON DELETE CASCADE
CascadeDelete(cms, id) == {cm \in cms : cm.requirement_id # id}

DeleteRequirement(c, id) ==
  /\ pc[c] = "idle"
  /\ LET found == id \in Ids(requirements)
     IN IF SqlParses(DeleteReturningKeyword)
        THEN /\ requirements' = {r \in requirements : r.id # id}
             /\ comments' = CascadeDelete(comments, id)
             /\ last' = Resp("deleteRequirement", IF found THEN 204 ELSE 404,
                             id, Null, <<>>, 0, 1, 0, found)
        ELSE /\ UNCHANGED <<requirements, comments>>
             /\ last' = Resp("deleteRequirement", 500, id, Null, <<>>, 0, 1, 0,
                             found)
  /\ UNCHANGED <<requirements_seq, comments_seq, pc, loc>>
  /\ TypesUnchanged
  /\ Observe

(* ------------------ POST /api/requirements/:id/comments ---------------- *)
\* if (!text && files.length === 0)
CommentRejected(text, files) == Falsy(text) /\ Len(files) = 0

AddComment(c, id, text, files) ==
  /\ pc[c] = "idle"
  /\ IF CommentRejected(text, files)
     THEN /\ last' = Resp("addComment", 400, 0, text, <<>>, 0, 0, Len(files),
                          FALSE)
          /\ UNCHANGED <<pc, loc>>
     ELSE /\ comments_seq + InFlight("addComment") < MaxComments
          /\ pc' = [pc EXCEPT ![c] = "upload"]
          /\ loc' = [loc EXCEPT ![c] =
                       [NoLoc EXCEPT !.op = "addComment", !.id = id,
                                     !.body = text, !.files = files, !.i = 1]]
          /\ last' = NoResp
  /\ TypesUnchanged
  /\ ReqStoreUnchanged
  /\ Observe

NewComment(l, id, now) ==
  [id |-> id, requirement_id |-> l.id, text |-> l.body, images |-> l.images,
   videos |-> l.videos, created_at |-> now]

\* Variant: requirement_id declared without REFERENCES.
ForeignKeyHolds_Undeclared(reqs, id) == TRUE

\* requirement_id INTEGER REFERENCES requirements(id)
ForeignKeyHolds(reqs, id) == id \in Ids(reqs)

\* The uploader has returned: INSERT INTO comments ... RETURNING *
InsertComment(c) ==
  /\ pc[c] = "upload"
  /\ loc[c].op = "addComment"
  /\ loc[c].i > Len(loc[c].files)
  /\ LET l == loc[c]
         row == NewComment(l, comments_seq + 1, Now(comments_seq))
         found == l.id \in Ids(requirements)
     IN /\ comments_seq' = comments_seq + 1
        /\ IF ForeignKeyHolds(requirements, l.id)
           THEN /\ comments' = comments \cup {row}
                /\ last' = Resp("addComment", 201, l.id, l.body, <<row>>,
                                Len(l.results), 1, Len(l.files), found)
           ELSE /\ UNCHANGED comments
                /\ last' = Resp("addComment", 500, l.id, l.body, <<>>,
                                Len(l.results), 1, Len(l.files), found)
  /\ pc' = [pc EXCEPT ![c] = "idle"]
  /\ loc' = [loc EXCEPT ![c] = NoLoc]
  /\ UNCHANGED <<requirements, requirements_seq>>
  /\ TypesUnchanged
  /\ Observe

(* ------------------------- GET /api/requirements ----------------------- *)
\* The response body: each requirement row with its comments attached.
WithComments(r, cms) == [row |-> r, comments |-> cms]

\* What one listing of a store content s returns when nothing runs inside it.
View(s) ==
  LET rows == OrderDesc(s.requirements)
  IN [i \in 1..Len(rows) |-> WithComments(rows[i], SelectComments(s.comments, rows[i].id))]

\* SELECT * FROM requirements ORDER BY created_at DESC; with no row the loop
\* body never runs and the response goes out at once.
ListRequirements(c) ==
  /\ pc[c] = "idle"
  /\ LET rows == OrderDesc(requirements)
     IN IF rows = <<>>
        THEN /\ last' = [Resp("list", 200, 0, Null, <<>>, 0, 1, 0, FALSE)
                           EXCEPT !.snaps = {Store}]
             /\ UNCHANGED <<pc, loc>>
        ELSE /\ pc' = [pc EXCEPT ![c] = "listComments"]
             /\ loc' = [loc EXCEPT ![c] =
                          [NoLoc EXCEPT !.op = "list", !.rows = rows, !.i = 1]]
             /\ last' = NoResp
  /\ TypesUnchanged
  /\ ReqStoreUnchanged
  /\ Observe

\* One iteration of the loop: the comments of row i are selected and attached;
\* after the last row res.json(requirements) is sent.
AttachComments(l, cms) ==
  [l EXCEPT !.out = Append(@, WithComments(l.rows[l.i],
                                           SelectComments(cms, l.rows[l.i].id))),
            !.i = @ + 1]

ListComments(c) ==
  /\ pc[c] = "listComments"
  /\ LET l == AttachComments(loc[c], comments)
     IN IF l.i > Len(l.rows)
        THEN /\ pc' = [pc EXCEPT ![c] = "idle"]
             /\ loc' = [loc EXCEPT ![c] = NoLoc]
             /\ last' = [Resp("list", 200, 0, Null, l.out, 0, l.i, 0, FALSE)
                           EXCEPT !.snaps = snaps[c]]
        ELSE /\ loc' = [loc EXCEPT ![c] = l]
             /\ last' = NoResp
             /\ UNCHANGED pc
  /\ TypesUnchanged
  /\ ReqStoreUnchanged
  /\ Observe

(* ----------------------------- /api/types ------------------------------ *)
TypesFrame ==
  /\ ReqStoreUnchanged
  /\ UNCHANGED snaps

\* Variant: name declared without UNIQUE.
UniqueHolds_Undeclared(types, name) == TRUE

\* name VARCHAR(255) UNIQUE NOT NULL
UniqueHolds(types, name) == \A t \in types : t.name # name

\* POST /api/types up to its await: if (!name) 400
CreateType(c, name) ==
  /\ pc[c] = "idle"
  /\ IF Falsy(name)
     THEN /\ last' = Resp("createType", 400, 0, name, <<>>, 0, 0, 0, FALSE)
          /\ UNCHANGED <<pc, loc>>
     ELSE /\ types_seq + InFlight("createType") < MaxTypes
          /\ pc' = [pc EXCEPT ![c] = "insertType"]
          /\ loc' = [loc EXCEPT ![c] =
                       [NoLoc EXCEPT !.op = "createType", !.body = name,
                                     !.free = UniqueHolds(requirement_types, name)]]
          /\ last' = NoResp
  /\ UNCHANGED <<requirement_types, types_seq>>
  /\ TypesFrame

\* INSERT INTO requirement_types (name) VALUES ($1) RETURNING *
InsertType(c) ==
  /\ pc[c] = "insertType"
  /\ LET name == loc[c].body
         row == [id |-> types_seq + 1, name |-> name]
         found == \E t \in requirement_types : t.name = name
     IN /\ types_seq' = types_seq + 1
        /\ IF UniqueHolds(requirement_types, name)
           THEN /\ requirement_types' = requirement_types \cup {row}
                /\ last' = Resp("createType", 201, row.id, name, <<row>>, 0, 1, 0,
                                found)
           ELSE /\ UNCHANGED requirement_types
                /\ last' = [Resp("createType", 500, 0, name, <<>>, 0, 1, 0, found)
                              EXCEPT !.raced = loc[c].free]
  /\ pc' = [pc EXCEPT ![c] = "idle"]
  /\ loc' = [loc EXCEPT ![c] = NoLoc]
  /\ TypesFrame

\* DELETE FROM requirement_types WHERE id = $1 RETURNING *
DeleteType(c, id) ==
  /\ pc[c] = "idle"
  /\ LET found == id \in Ids(requirement_types)
     IN /\ requirement_types' = {t \in requirement_types : t.id # id}
        /\ last' = Resp("deleteType", IF found THEN 204 ELSE 404, id, Null,
                        <<>>, 0, 1, 0, found)
  /\ UNCHANGED <<types_seq, pc, loc>>
  /\ TypesFrame

(* -------------------------- specifications ----------------------------- *)
\* The routes that write requirements and comments, with media.  The type
\* routes touch only requirement_types and its sequence, which no other
\* route reads or writes, and GET /api/requirements writes nothing: they are
\* explored in SpecTypes and SpecList.
Next ==
  \E c \in Clients :
    \/ \E body \in CreateBodies, files \in RequestFiles :
         CreateRequirement(c, body, files)
    \/ UploadStep(c)
    \/ InsertRequirement(c)
    \/ \E id \in ReqIds, status \in StatusInputs : UpdateStatus(c, id, status)
    \/ \E id \in ReqIds, body \in UpdateBodies : UpdateDetails(c, id, body)
    \/ \E id \in ReqIds : DeleteRequirement(c, id)
    \/ \E id \in ReqIds, text \in TextInputs, files \in CommentFiles :
         AddComment(c, id, text, files)
    \/ InsertComment(c)

Spec == Init /\ [][Next]_vars

\* GET /api/requirements running among the writing routes; the requests
\* carry no files, so the uploader returns at once.
NextList ==
  \E c \in Clients :
    \/ ListRequirements(c)
    \/ ListComments(c)
    \/ CreateRequirement(c, ValidCreate, <<>>)
    \/ InsertRequirement(c)
    \/ \E id \in ReqIds : UpdateStatus(c, id, "Resolved")
    \/ \E id \in ReqIds : UpdateDetails(c, id, ValidUpdate)
    \/ \E id \in ReqIds : DeleteRequirement(c, id)
    \/ \E id \in ReqIds : AddComment(c, id, "hi", <<>>)
    \/ InsertComment(c)

SpecList == Init /\ [][NextList]_vars

NextTypes ==
  \E c \in Clients :
    \/ \E name \in NameInputs : CreateType(c, name)
    \/ InsertType(c)
    \/ \E id \in TypeIds : DeleteType(c, id)

SpecTypes == Init /\ [][NextTypes]_vars

\* The uploader on its own, over every batch of up to MaxBatch files: a
\* valid POST /api/requirements has just entered uploadMediaToCloudinary.
InitUpload ==
  /\ requirement_types = {}
  /\ requirements = {}
  /\ comments = {}
  /\ types_seq = 0
  /\ requirements_seq = 0
  /\ comments_seq = 0
  /\ \E files \in BatchFiles :
       /\ pc = [c \in Clients |-> IF c = "c1" THEN "upload" ELSE "idle"]
       /\ loc = [c \in Clients |->
                   IF c = "c1"
                   THEN [NoLoc EXCEPT
                           !.op = "createRequirement",
                           !.body = [customer |-> "Acme", contact |-> "555",
                                     type |-> "Bug", details |-> "X",
                                     followUp |-> "call"],
                           !.files = files, !.i = 1]
                   ELSE NoLoc]
  /\ last = NoResp
  /\ snaps = [c \in Clients |-> {}]

NextUpload ==
  \E c \in Clients :
    \/ UploadStep(c)
    \/ InsertRequirement(c)

SpecUpload == InitUpload /\ [][NextUpload]_vars

(* ------------------------------ properties ----------------------------- *)
StoreUnchanged ==
  /\ requirements' = requirements
  /\ comments' = comments

\* The row of requirements with the given id, before and after a step.
RowOf(rows, id) == CHOOSE r \in rows : r.id = id

\* C1: DELETE /api/requirements/:id on an id in the store responds 204 and
\* leaves neither the requirement nor any comment of it in the store; on an
\* id not in the store it responds 404.
C1_DeleteRemovesRequirementAndComments ==
  last.op = "deleteRequirement" =>
    IF last.found
    THEN /\ last.code = 204
         /\ last.id \notin Ids(requirements)
         /\ \A cm \in comments : cm.requirement_id # last.id
    ELSE last.code = 404

\* C2: every persisted comment has non-empty text or at least one URL in its
\* images or videos.
C2_CommentHasTextOrMedia ==
  \A cm \in comments :
    (cm.text # Null /\ cm.text # "") \/ Len(cm.images) + Len(cm.videos) > 0

\* C3: every persisted requirement has a status (never null).
C3_RequirementHasStatus ==
  \A r \in requirements : r.status # Null

\* C4: a POST /api/requirements whose customer, type or details is missing
\* or empty responds 400 after no call to the uploader and no call to the
\* store, and the step leaves the tables as they were.
C4_InvalidCreateTouchesNothing ==
  [][(/\ last'.op = "createRequirement"
      /\ \/ last'.req.customer \in {Null, ""}
         \/ last'.req.type \in {Null, ""}
         \/ last'.req.details \in {Null, ""})
     => /\ last'.code = 400
        /\ last'.uploads = 0
        /\ last'.queries = 0
        /\ StoreUnchanged
        /\ requirements_seq' = requirements_seq]_vars

\* C4 witness: an invalid creation that carried a media file was answered 400
\* while a requirement exists.
C4_Witness ==
  /\ last.op = "createRequirement"
  /\ last.code = 400
  /\ last.nfiles > 0
  /\ requirements # {}

\* C5: PUT /api/requirements/:id/status on an id not in the store responds
\* 404 and changes nothing; on an id in the store it responds 200 and the
\* step changes the status of that requirement to the given one and nothing
\* else: not its other fields, not its comments, not another requirement.
C5_UpdateStatusChangesOnlyStatus ==
  [][last'.op = "updateStatus" =>
       IF last'.found
       THEN /\ last'.code = 200
            /\ comments' = comments
            /\ Ids(requirements') = Ids(requirements)
            /\ Cardinality(requirements') = Cardinality(requirements)
            /\ \A r \in requirements :
                 IF r.id = last'.id
                 THEN LET n == RowOf(requirements', r.id)
                      IN /\ n.status = last'.req
                         /\ n.customer = r.customer
                         /\ n.contact = r.contact
                         /\ n.type = r.type
                         /\ n.details = r.details
                         /\ n.follow_up = r.follow_up
                         /\ n.images = r.images
                         /\ n.videos = r.videos
                         /\ n.created_at = r.created_at
                 ELSE r \in requirements'
       ELSE /\ last'.code = 404
            /\ StoreUnchanged]_vars

\* C5 witness: a status update answered 200 on a requirement that has media
\* and a comment, with a second requirement in the store.
C5_Witness ==
  /\ last.op = "updateStatus"
  /\ last.code = 200
  /\ Cardinality(requirements) = 2
  /\ \E r \in requirements :
       /\ r.id = last.id
       /\ Len(r.images) + Len(r.videos) > 0
       /\ \E cm \in comments : cm.requirement_id = r.id

\* C6: a POST /api/types whose name is already in requirement_types is
\* answered 500 and the step leaves the table as it was, and no two rows of
\* requirement_types ever have the same name.
C6_TypeNamesUnique ==
  [][/\ (last'.op = "createType" /\ last'.found)
        => (last'.code = 500 /\ requirement_types' = requirement_types)
     /\ \A t1, t2 \in requirement_types' : t1.name = t2.name => t1 = t2]_vars

\* C6 witness: two creations of one name ran concurrently (the name was free
\* when the request arrived and taken when its INSERT ran), and the loser
\* was answered 500.
C6_Witness ==
  /\ last.op = "createType"
  /\ last.code = 500
  /\ last.found
  /\ last.raced

\* C7: PUT /api/requirements/:id with customer, type or details missing
\* responds 400 without a store call; with all three present it responds 404
\* on an id not in the store, and 200 on an id in the store, where the step
\* sets customer, contact, type and details of that requirement to the given
\* ones and changes nothing else.
C7_UpdateDetailsChangesOnlyDetails ==
  [][last'.op = "updateDetails" =>
       IF \/ last'.req.customer \in {Null, ""}
          \/ last'.req.type \in {Null, ""}
          \/ last'.req.details \in {Null, ""}
       THEN /\ last'.code = 400
            /\ last'.queries = 0
            /\ StoreUnchanged
       ELSE IF last'.found
       THEN /\ last'.code = 200
            /\ comments' = comments
            /\ Ids(requirements') = Ids(requirements)
            /\ Cardinality(requirements') = Cardinality(requirements)
            /\ \A r \in requirements :
                 IF r.id = last'.id
                 THEN LET n == RowOf(requirements', r.id)
                      IN /\ n.customer = last'.req.customer
                         /\ n.contact = last'.req.contact
                         /\ n.type = last'.req.type
                         /\ n.details = last'.req.details
                         /\ n.status = r.status
                         /\ n.follow_up = r.follow_up
                         /\ n.images = r.images
                         /\ n.videos = r.videos
                         /\ n.created_at = r.created_at
                 ELSE r \in requirements'
       ELSE /\ last'.code = 404
            /\ StoreUnchanged]_vars

\* C7 witness: a details update answered 200 on a requirement whose status is
\* no longer the default and that has media and a comment.
C7_Witness ==
  /\ last.op = "updateDetails"
  /\ last.code = 200
  /\ \E r \in requirements :
       /\ r.id = last.id
       /\ r.customer = "Zed"
       /\ r.status = "Resolved"
       /\ Len(r.images) + Len(r.videos) > 0
       /\ \E cm \in comments : cm.requirement_id = r.id

\* The URLs the first n files of a batch must have produced, given which
\* uploads succeeded: those of the successful files of the wanted class, in
\* input order.
RECURSIVE UrlsOf(_, _, _, _)
UrlsOf(files, results, n, image) ==
  IF n = 0 THEN <<>>
  ELSE LET f == files[n]
           isImage == Len(f.mimetype) >= 5 /\ SubSeq(f.mimetype, 1, 5) = "image"
       IN IF results[n] /\ (isImage <=> image)
          THEN Append(UrlsOf(files, results, n - 1, image), "https://res/" \o f.buffer)
          ELSE UrlsOf(files, results, n - 1, image)

\* C8: whatever uploads fail, the uploader has attempted every file before
\* the one it is at, holds as images the URLs of the successful files whose
\* MIME type starts with "image", in input order, and as videos the URLs of
\* the other successful files, in input order; the request that called it is
\* answered only after every file was attempted, and not with an error.
C8_UploadPartitionsInOrder ==
  /\ \A c \in Clients :
       pc[c] = "upload" =>
         LET l == loc[c]
             n == l.i - 1
         IN /\ n <= Len(l.files)
            /\ Len(l.results) = n
            /\ l.images = UrlsOf(l.files, l.results, n, TRUE)
            /\ l.videos = UrlsOf(l.files, l.results, n, FALSE)
  /\ last.op = "createRequirement" =>
       /\ last.code = 201
       /\ last.uploads = last.nfiles

\* C8 witness: the uploader has finished a batch of three files in which the
\* second upload failed and the third succeeded, with an image and a video
\* among the results.
C8_Witness ==
  \E c \in Clients :
    /\ pc[c] = "upload"
    /\ Len(loc[c].files) >= 3
    /\ loc[c].i > Len(loc[c].files)
    /\ loc[c].results[1]
    /\ ~loc[c].results[2]
    /\ loc[c].results[3]
    /\ loc[c].images # <<>>
    /\ loc[c].videos # <<>>

\* C9 as written: the response of GET /api/requirements equals the
\* requirements, each with its comments, of one single store content that
\* existed during the request.
C9_ListIsOneSnapshot ==
  last.op = "list" => \E s \in last.snaps : last.body = View(s)

\* C9 amended: the requirement rows of the response are those of one store
\* content that existed during the request, and the comments attached to
\* each row are the comments of that requirement in one store content that
\* existed during the request, not necessarily the same one for all.
C9_ListIsOneSnapshotPerQuery ==
  last.op = "list" =>
    /\ \E s \in last.snaps :
         [i \in 1..Len(last.body) |-> last.body[i].row] = OrderDesc(s.requirements)
    /\ \A i \in 1..Len(last.body) :
         \E s \in last.snaps :
           last.body[i].comments =
             OrderAsc({cm \in s.comments : cm.requirement_id = last.body[i].row.id})

\* C9 witness: a listing was answered whose body, with a comment in it, is
\* the listing of no single store content of its request.
C9_Witness ==
  /\ last.op = "list"
  /\ \E i \in 1..Len(last.body) : last.body[i].comments # <<>>
  /\ \A s \in last.snaps : last.body # View(s)

====
